---- MODULE Spec2Model ----
(***************************************************************************)
(* Model of lf (src/main.rs): main, process_file and is_likely_text_file.  *)
(*                                                                         *)
(* A file content is the byte string 97^pad \o tail: pad filler bytes      *)
(* (0x61, a plain ASCII letter) followed by an explicit tail.  The filler  *)
(* lets a content be longer than the 1024-byte sample of the classifier    *)
(* while the interesting bytes stay few.                                   *)
(***************************************************************************)
EXTENDS Integers, Sequences, FiniteSets, TLC

VARIABLES
    root_path,        \* what the root path is: "dir", "file" or "none"
    entry,            \* entry[e]: what the e-th walked entry is
    path,             \* path[e]: the underlying file the entry's path opens (0: none)
    fs,               \* fs[f]: current content of underlying file f
    fs0,              \* fs at the start of the current run of main
    pcMain,           \* position of main
    pc,               \* pc[e]: position of the closure / pipeline run on entry e
    res,              \* res[e]: what process_file returned for entry e
    content,          \* content[e]: process_file's local `content`
    isText,           \* isText[e]: what is_likely_text_file returned
    ioFail,           \* ioFail[e]: the I/O call of this invocation that failed
    fullRead,         \* fullRead[e]: the invocation read the file in full
    wrote,            \* wrote[e]: the invocation opened the file for writing
    processed_count,
    skipped_count,
    error_count,
    stdout,           \* lines printed on standard output, by kind
    stderr,           \* lines printed on standard error, by kind
    summary,          \* the counter values the summary block printed
    run,              \* which run of main this is
    history           \* per finished single-file run: its outcome

vars == <<root_path, entry, path, fs, fs0, pcMain, pc, res, content, isText,
          ioFail, fullRead, wrote, processed_count, skipped_count, error_count,
          stdout, stderr, summary, run, history>>

----------------------------------------------------------------------------
(* Bounds of the model *)

MaxLen == 3
MaxEntries == 2

(* Program constants *)

BufSize == 1024
NUL == 0
CR == 13
LF == 10

Bytes == {NUL, LF, CR, 97, 255}

Pads == {0, BufSize - 2, BufSize - 1, BufSize}

Entries == 1..MaxEntries

SeqsUpTo(S, n) == UNION {[1..k -> S] : k \in 0..n}

Empty == [pad |-> 0, tail |-> <<>>]

Content(p, t) == [pad |-> p, tail |-> t]

\* contents a file can have in single-file mode
FileContents == {Content(p, t) : p \in Pads, t \in SeqsUpTo(Bytes, MaxLen)}

\* contents of the files of a walked tree
DirContents == { Content(0, <<97, CR, LF>>), Content(0, <<97>>),
                 Content(0, <<CR, CR, LF>>) }

----------------------------------------------------------------------------
(* Byte strings *)

ContentLen(c) == c.pad + Len(c.tail)

ByteAt(c, i) == IF i <= c.pad THEN 97 ELSE c.tail[i - c.pad]

Min(a, b) == IF a <= b THEN a ELSE b

\* the first k bytes of c
Prefix(c, k) ==
    IF k <= c.pad THEN Content(k, <<>>)
    ELSE Content(c.pad, SubSeq(c.tail, 1, k - c.pad))

\* writing new at offset 0 of a file that holds old
Overlay(old, new) ==
    IF ContentLen(old) <= ContentLen(new) THEN new
    ELSE Content(new.pad,
                 new.tail \o [i \in 1..(ContentLen(old) - ContentLen(new)) |->
                                 ByteAt(old, ContentLen(new) + i)])

\* is_likely_text_file with the whole file scanned for NUL
HasNulAnywhere(c) == \E i \in 1..Len(c.tail) : c.tail[i] = NUL

\* buffer[..n].contains(&0) with n = the bytes read into the 1024-byte buffer
\* (one read of a regular file: the buffer is filled up to the file's length)
HasNulInHead(c) ==
    LET n == Min(BufSize, ContentLen(c))
    IN  \E i \in 1..n : ByteAt(c, i) = NUL

\* fs::read_to_string: the bytes are valid UTF-8 (0xFF never is; the others are ASCII)
ValidUtf8(c) == \A i \in 1..Len(c.tail) : c.tail[i] < 128

\* content.contains("\r") in place of content.contains("\r\n")
ContainsCR(c) == \E i \in 1..Len(c.tail) : c.tail[i] = CR

\* content.contains("\r\n")
ContainsCRLF(c) ==
    \E i \in 1..(Len(c.tail) - 1) : c.tail[i] = CR /\ c.tail[i + 1] = LF

\* str::replace("\r\n", "\n"): left-to-right, non-overlapping
RECURSIVE ReplaceSeq(_)
ReplaceSeq(s) ==
    IF Len(s) < 2 THEN s
    ELSE IF s[1] = CR /\ s[2] = LF
         THEN <<LF>> \o ReplaceSeq(SubSeq(s, 3, Len(s)))
         ELSE <<s[1]>> \o ReplaceSeq(Tail(s))

\* content.replace("\r", ""): every CR removed
StripCR(c) == Content(c.pad, SelectSeq(c.tail, LAMBDA b : b # CR))

\* new_content; the filler bytes hold no CR, so every match lies in the tail
Replace(c) == Content(c.pad, ReplaceSeq(c.tail))

\* AtomicUsize::store(1) in place of fetch_add(1)
FetchStore(c) == 1

\* AtomicUsize::fetch_add(1, SeqCst)
FetchAdd(c) == c + 1

----------------------------------------------------------------------------
(* Initial states *)

NoLines == [processed |-> 0, summary |-> 0]
NoErrLines == [skipped |-> 0, fileerr |-> 0, traverse |-> 0]

InitRun ==
    /\ pcMain = "start"
    /\ pc = [e \in Entries |-> "queued"]
    /\ res = [e \in Entries |-> "none"]
    /\ content = [e \in Entries |-> Empty]
    /\ isText = [e \in Entries |-> "unset"]
    /\ ioFail = [e \in Entries |-> "none"]
    /\ fullRead = [e \in Entries |-> FALSE]
    /\ wrote = [e \in Entries |-> FALSE]
    /\ processed_count = 0
    /\ skipped_count = 0
    /\ error_count = 0
    /\ stdout = NoLines
    /\ stderr = NoErrLines
    /\ summary = <<>>
    /\ run = 1
    /\ history = <<>>
    /\ fs0 = fs

\* the root is one regular file, with a content of S
InitFileIn(S) ==
    /\ root_path = "file"
    /\ entry = [e \in Entries |-> IF e = 1 THEN "file" ELSE "nonfile"]
    /\ path = [e \in Entries |-> IF e = 1 THEN 1 ELSE 0]
    /\ \E c \in S : fs = [f \in Entries |-> IF f = 1 THEN c ELSE Empty]

InitFile == InitFileIn(FileContents)

\* the order in which a directory lists its entries is arbitrary, and every
\* pulled item can wait while the others run: only trees listed in this order
\* of kinds are drawn
Rank(k) == CASE k = "file" -> 1 [] k = "link" -> 2 [] k = "err" -> 3 [] OTHER -> 4

\* the root is a directory: the walk yields MaxEntries entries, each a regular
\* file, a symbolic link to one of the files, a non-file or a traversal error
InitDir ==
    /\ root_path = "dir"
    /\ entry \in [Entries -> {"file", "link", "nonfile", "err"}]
    /\ \A d, e \in Entries : d < e => Rank(entry[d]) <= Rank(entry[e])
    /\ path \in [Entries -> 0..MaxEntries]
    /\ \A e \in Entries :
          CASE entry[e] = "file" -> path[e] = e
            [] entry[e] = "link" -> path[e] \in Entries /\ entry[path[e]] = "file"
            [] OTHER -> path[e] = 0
    /\ fs \in [Entries -> DirContents \cup {Empty}]
    /\ \A f \in Entries : (fs[f] = Empty) <=> (entry[f] # "file")

\* the root is neither
InitNone ==
    /\ root_path = "none"
    /\ entry = [e \in Entries |-> "nonfile"]
    /\ path = [e \in Entries |-> 0]
    /\ fs = [f \in Entries |-> Empty]

Init == (InitFile \/ InitDir \/ InitNone) /\ InitRun

----------------------------------------------------------------------------
(* main: dispatch on the root path *)

\* root_path.is_dir(): the counters are created and the parallel walk starts
StartDir ==
    /\ pcMain = "start" /\ root_path = "dir"
    /\ pcMain' = "walking"
    /\ UNCHANGED <<root_path, entry, path, fs, fs0, pc, res, content, isText,
                   ioFail, fullRead, wrote, processed_count, skipped_count,
                   error_count, stdout, stderr, summary, run, history>>

\* root_path.is_file(): process_file is called once, on the root itself
StartFile ==
    /\ pcMain = "start" /\ root_path = "file"
    /\ pcMain' = "single"
    /\ pc' = [pc EXCEPT ![1] = "classify"]
    /\ UNCHANGED <<root_path, entry, path, fs, fs0, res, content, isText,
                   ioFail, fullRead, wrote, processed_count, skipped_count,
                   error_count, stdout, stderr, summary, run, history>>

\* neither a directory nor a file: main returns without any output
StartNone ==
    /\ pcMain = "start" /\ root_path = "none"
    /\ pcMain' = "exit"
    /\ UNCHANGED <<root_path, entry, path, fs, fs0, pc, res, content, isText,
                   ioFail, fullRead, wrote, processed_count, skipped_count,
                   error_count, stdout, stderr, summary, run, history>>

----------------------------------------------------------------------------
(* The for_each closure, run by the pool's workers on the walked entries *)

\* par_bridge hands out the iterator's items in order; the pool is taken to
\* have a worker for every item, so that all of them can be in flight at once
Pulled(e) ==
    /\ pcMain = "walking"
    /\ pc[e] = "queued"
    /\ \A d \in Entries : d < e => pc[d] # "queued"

\* the Err arm ending the whole run instead of returning from the closure
TraverseErrorFatal(e) ==
    /\ Pulled(e) /\ entry[e] = "err"
    /\ stderr' = [stderr EXCEPT !.traverse = @ + 1]
    /\ error_count' = FetchAdd(error_count)
    /\ pc' = [pc EXCEPT ![e] = "done"]
    /\ pcMain' = "exit"
    /\ UNCHANGED <<root_path, entry, path, fs, fs0, res, content, isText,
                   ioFail, fullRead, wrote, processed_count, skipped_count,
                   stdout, summary, run, history>>

\* entry_result is Err(e): report it, count it, return
TraverseError(e) ==
    /\ Pulled(e) /\ entry[e] = "err"
    /\ stderr' = [stderr EXCEPT !.traverse = @ + 1]
    /\ error_count' = FetchAdd(error_count)
    /\ pc' = [pc EXCEPT ![e] = "done"]
    /\ UNCHANGED <<root_path, entry, path, fs, fs0, pcMain, res, content, isText,
                   ioFail, fullRead, wrote, processed_count, skipped_count,
                   stdout, summary, run, history>>

\* path.is_file() is false: nothing is done for the entry
NotAFile(e) ==
    /\ Pulled(e) /\ entry[e] = "nonfile"
    /\ pc' = [pc EXCEPT ![e] = "done"]
    /\ UNCHANGED <<root_path, entry, path, fs, fs0, pcMain, res, content, isText,
                   ioFail, fullRead, wrote, processed_count, skipped_count,
                   error_count, stdout, stderr, summary, run, history>>

\* path.is_file() is true (it follows symbolic links): process_file(path) starts
IsFile(e) ==
    /\ Pulled(e) /\ entry[e] \in {"file", "link"}
    /\ pc' = [pc EXCEPT ![e] = "classify"]
    /\ UNCHANGED <<root_path, entry, path, fs, fs0, pcMain, res, content, isText,
                   ioFail, fullRead, wrote, processed_count, skipped_count,
                   error_count, stdout, stderr, summary, run, history>>

----------------------------------------------------------------------------
(* process_file and is_likely_text_file, one action per I/O call *)

\* File::open or file.read fails: `?` returns the error
ClassifyErr(e) ==
    /\ pc[e] = "classify"
    /\ ioFail' = [ioFail EXCEPT ![e] = "classify"]
    /\ res' = [res EXCEPT ![e] = "Errored"]
    /\ pc' = [pc EXCEPT ![e] = "result"]
    /\ UNCHANGED <<root_path, entry, path, fs, fs0, pcMain, content, isText,
                   fullRead, wrote, processed_count, skipped_count,
                   error_count, stdout, stderr, summary, run, history>>

\* the head is read and searched for NUL; a binary file is skipped
ClassifyOk(e) ==
    /\ pc[e] = "classify"
    /\ LET text == ~HasNulInHead(fs[path[e]])
       IN  /\ isText' = [isText EXCEPT ![e] = IF text THEN "text" ELSE "binary"]
           /\ res' = [res EXCEPT ![e] = IF text THEN @ ELSE "Skipped"]
           /\ pc' = [pc EXCEPT ![e] = IF text THEN "read" ELSE "result"]
    /\ UNCHANGED <<root_path, entry, path, fs, fs0, pcMain, content, ioFail,
                   fullRead, wrote, processed_count, skipped_count,
                   error_count, stdout, stderr, summary, run, history>>

\* fs::read_to_string fails on the read or on the decoding
ReadErr(e) ==
    /\ pc[e] = "read"
    /\ \/ /\ ioFail' = [ioFail EXCEPT ![e] = "read"]
          /\ UNCHANGED fullRead
       \/ /\ ~ValidUtf8(fs[path[e]])
          /\ ioFail' = [ioFail EXCEPT ![e] = "decode"]
          /\ fullRead' = [fullRead EXCEPT ![e] = TRUE]
    /\ res' = [res EXCEPT ![e] = "Errored"]
    /\ pc' = [pc EXCEPT ![e] = "result"]
    /\ UNCHANGED <<root_path, entry, path, fs, fs0, pcMain, content, isText,
                   wrote, processed_count, skipped_count,
                   error_count, stdout, stderr, summary, run, history>>

\* the content is read and decoded; without CRLF the file is skipped
ReadOk(e) ==
    /\ pc[e] = "read"
    /\ ValidUtf8(fs[path[e]])
    /\ content' = [content EXCEPT ![e] = fs[path[e]]]
    /\ fullRead' = [fullRead EXCEPT ![e] = TRUE]
    /\ LET crlf == ContainsCRLF(fs[path[e]])
       IN  /\ res' = [res EXCEPT ![e] = IF crlf THEN @ ELSE "Skipped"]
           /\ pc' = [pc EXCEPT ![e] = IF crlf THEN "create" ELSE "result"]
    /\ UNCHANGED <<root_path, entry, path, fs, fs0, pcMain, isText, ioFail,
                   wrote, processed_count, skipped_count,
                   error_count, stdout, stderr, summary, run, history>>

\* a failing open that has truncated the file all the same
CreateErrTruncating(e) ==
    /\ pc[e] = "create"
    /\ ioFail' = [ioFail EXCEPT ![e] = "create"]
    /\ fs' = [fs EXCEPT ![path[e]] = Empty]
    /\ res' = [res EXCEPT ![e] = "Errored"]
    /\ pc' = [pc EXCEPT ![e] = "result"]
    /\ UNCHANGED <<root_path, entry, path, fs0, pcMain, content, isText,
                   fullRead, wrote, processed_count, skipped_count,
                   error_count, stdout, stderr, summary, run, history>>

\* fs::write: opening the file for writing fails, the file is as it was
CreateErr(e) ==
    /\ pc[e] = "create"
    /\ ioFail' = [ioFail EXCEPT ![e] = "create"]
    /\ res' = [res EXCEPT ![e] = "Errored"]
    /\ pc' = [pc EXCEPT ![e] = "result"]
    /\ UNCHANGED <<root_path, entry, path, fs, fs0, pcMain, content, isText,
                   fullRead, wrote, processed_count, skipped_count,
                   error_count, stdout, stderr, summary, run, history>>

\* fs::write: the file is opened for writing, which truncates it
CreateOk(e) ==
    /\ pc[e] = "create"
    /\ fs' = [fs EXCEPT ![path[e]] = Empty]
    /\ wrote' = [wrote EXCEPT ![e] = TRUE]
    /\ pc' = [pc EXCEPT ![e] = "write"]
    /\ UNCHANGED <<root_path, entry, path, fs0, pcMain, res, content, isText,
                   ioFail, fullRead, processed_count, skipped_count,
                   error_count, stdout, stderr, summary, run, history>>

\* the lengths a failing write_all may have written (nothing, or the filler and
\* a proper part of the tail)
PartialLens(new) ==
    {k \in {0} \cup {new.pad + j : j \in 0..Len(new.tail)} : k < ContentLen(new)}

\* fs::write: write_all fails after the truncation, part of new_content is written
WriteErr(e) ==
    /\ pc[e] = "write"
    /\ \E k \in PartialLens(Replace(content[e])) :
          fs' = [fs EXCEPT ![path[e]] = Overlay(@, Prefix(Replace(content[e]), k))]
    /\ ioFail' = [ioFail EXCEPT ![e] = "write"]
    /\ res' = [res EXCEPT ![e] = "Errored"]
    /\ pc' = [pc EXCEPT ![e] = "result"]
    /\ UNCHANGED <<root_path, entry, path, fs0, pcMain, content, isText,
                   fullRead, wrote, processed_count, skipped_count,
                   error_count, stdout, stderr, summary, run, history>>

\* fs::write(path, content): the content as read is written back
WriteOkUnconverted(e) ==
    /\ pc[e] = "write"
    /\ fs' = [fs EXCEPT ![path[e]] = Overlay(@, content[e])]
    /\ res' = [res EXCEPT ![e] = "Converted"]
    /\ pc' = [pc EXCEPT ![e] = "result"]
    /\ UNCHANGED <<root_path, entry, path, fs0, pcMain, content, isText, ioFail,
                   fullRead, wrote, processed_count, skipped_count,
                   error_count, stdout, stderr, summary, run, history>>

\* fs::write: new_content is written, process_file returns Ok(true)
WriteOk(e) ==
    /\ pc[e] = "write"
    /\ fs' = [fs EXCEPT ![path[e]] = Overlay(@, Replace(content[e]))]
    /\ res' = [res EXCEPT ![e] = "Converted"]
    /\ pc' = [pc EXCEPT ![e] = "result"]
    /\ UNCHANGED <<root_path, entry, path, fs0, pcMain, content, isText, ioFail,
                   fullRead, wrote, processed_count, skipped_count,
                   error_count, stdout, stderr, summary, run, history>>

----------------------------------------------------------------------------
(* The arms of `match process_file(path)` *)

\* directory mode, Ok(true): count, then print "Processed: <path>"
CountProcessed(e) ==
    /\ pcMain = "walking" /\ pc[e] = "result" /\ res[e] = "Converted"
    /\ processed_count' = FetchAdd(processed_count)
    /\ stdout' = [stdout EXCEPT !.processed = @ + 1]
    /\ pc' = [pc EXCEPT ![e] = "done"]
    /\ UNCHANGED <<root_path, entry, path, fs, fs0, pcMain, res, content, isText,
                   ioFail, fullRead, wrote, skipped_count, error_count,
                   stderr, summary, run, history>>

\* directory mode, Ok(false): count
CountSkipped(e) ==
    /\ pcMain = "walking" /\ pc[e] = "result" /\ res[e] = "Skipped"
    /\ skipped_count' = FetchAdd(skipped_count)
    /\ pc' = [pc EXCEPT ![e] = "done"]
    /\ UNCHANGED <<root_path, entry, path, fs, fs0, pcMain, res, content, isText,
                   ioFail, fullRead, wrote, processed_count, error_count,
                   stdout, stderr, summary, run, history>>

\* directory mode, Err(e): count, then print "Error processing file ..."
CountError(e) ==
    /\ pcMain = "walking" /\ pc[e] = "result" /\ res[e] = "Errored"
    /\ error_count' = FetchAdd(error_count)
    /\ stderr' = [stderr EXCEPT !.fileerr = @ + 1]
    /\ pc' = [pc EXCEPT ![e] = "done"]
    /\ UNCHANGED <<root_path, entry, path, fs, fs0, pcMain, res, content, isText,
                   ioFail, fullRead, wrote, processed_count, skipped_count,
                   stdout, summary, run, history>>

\* what a finished single-file run leaves behind
Finished(e) ==
    [res |-> res[e], fail |-> ioFail[e], wrote |-> wrote[e],
     before |-> fs0[path[e]], fs |-> fs[path[e]]]

\* single-file mode, Ok(true): println!("Processed: ...")
FileProcessed ==
    /\ pcMain = "single" /\ pc[1] = "result" /\ res[1] = "Converted"
    /\ stdout' = [stdout EXCEPT !.processed = @ + 1]
    /\ pc' = [pc EXCEPT ![1] = "done"]
    /\ pcMain' = "exit"
    /\ history' = Append(history, Finished(1))
    /\ UNCHANGED <<root_path, entry, path, fs, fs0, res, content, isText,
                   ioFail, fullRead, wrote, processed_count, skipped_count,
                   error_count, stderr, summary, run>>

\* single-file mode, Ok(false): eprintln!("Skipped: ...")
FileSkipped ==
    /\ pcMain = "single" /\ pc[1] = "result" /\ res[1] = "Skipped"
    /\ stderr' = [stderr EXCEPT !.skipped = @ + 1]
    /\ pc' = [pc EXCEPT ![1] = "done"]
    /\ pcMain' = "exit"
    /\ history' = Append(history, Finished(1))
    /\ UNCHANGED <<root_path, entry, path, fs, fs0, res, content, isText,
                   ioFail, fullRead, wrote, processed_count, skipped_count,
                   error_count, stdout, summary, run>>

\* single-file mode, Err(e): eprintln!("Error processing file ...")
FileError ==
    /\ pcMain = "single" /\ pc[1] = "result" /\ res[1] = "Errored"
    /\ stderr' = [stderr EXCEPT !.fileerr = @ + 1]
    /\ pc' = [pc EXCEPT ![1] = "done"]
    /\ pcMain' = "exit"
    /\ history' = Append(history, Finished(1))
    /\ UNCHANGED <<root_path, entry, path, fs, fs0, res, content, isText,
                   ioFail, fullRead, wrote, processed_count, skipped_count,
                   error_count, stdout, summary, run>>

\* for_each has returned: every item's closure has run; the counters are loaded
\* and the summary block is printed
Summary ==
    /\ pcMain = "walking"
    /\ \A e \in Entries : pc[e] = "done"
    /\ summary' = <<processed_count, skipped_count, error_count>>
    /\ stdout' = [stdout EXCEPT !.summary = @ + 1]
    /\ pcMain' = "exit"
    /\ UNCHANGED <<root_path, entry, path, fs, fs0, pc, res, content, isText,
                   ioFail, fullRead, wrote, processed_count, skipped_count,
                   error_count, stderr, run, history>>

\* the program is run a second time on the same file, right after the first run
Rerun ==
    /\ pcMain = "exit" /\ root_path = "file"
    /\ run = 1
    /\ run' = run + 1
    /\ fs0' = fs
    /\ pcMain' = "start"
    /\ pc' = [e \in Entries |-> "queued"]
    /\ res' = [e \in Entries |-> "none"]
    /\ content' = [e \in Entries |-> Empty]
    /\ isText' = [e \in Entries |-> "unset"]
    /\ ioFail' = [e \in Entries |-> "none"]
    /\ fullRead' = [e \in Entries |-> FALSE]
    /\ wrote' = [e \in Entries |-> FALSE]
    /\ stdout' = NoLines
    /\ stderr' = NoErrLines
    /\ UNCHANGED <<root_path, entry, path, fs, processed_count, skipped_count,
                   error_count, summary, history>>

----------------------------------------------------------------------------

\* the steps of the program itself
Step ==
    \/ StartDir
    \/ StartFile
    \/ StartNone
    \/ \E e \in Entries : TraverseError(e)
    \/ \E e \in Entries : NotAFile(e)
    \/ \E e \in Entries : IsFile(e)
    \/ \E e \in Entries : ClassifyErr(e)
    \/ \E e \in Entries : ClassifyOk(e)
    \/ \E e \in Entries : ReadErr(e)
    \/ \E e \in Entries : ReadOk(e)
    \/ \E e \in Entries : CreateErr(e)
    \/ \E e \in Entries : CreateOk(e)
    \/ \E e \in Entries : WriteErr(e)
    \/ \E e \in Entries : WriteOk(e)
    \/ \E e \in Entries : CountProcessed(e)
    \/ \E e \in Entries : CountSkipped(e)
    \/ \E e \in Entries : CountError(e)
    \/ FileProcessed
    \/ FileSkipped
    \/ FileError
    \/ Summary

Next == Step \/ Rerun

Spec == Init /\ [][Next]_vars

\* the runs checked for termination: every tree, and single files with the
\* contents of the trees' files
FairInit == (InitFileIn(DirContents) \/ InitDir \/ InitNone) /\ InitRun

\* a worker that has taken an item runs its closure, and main runs on: whenever
\* the program can take a step it eventually takes one
FairSpec == FairInit /\ [][Next]_vars /\ WF_vars(Step)

----------------------------------------------------------------------------
(* Vocabulary of the properties, stated on byte strings directly *)

\* positions of s at which a CRLF starts
CrlfStarts(s) == {i \in 1..(Len(s) - 1) : s[i] = 13 /\ s[i + 1] = 10}

NumCRLF(s) == Cardinality(CrlfStarts(s))

\* s with the CR of every CRLF taken out and every other byte kept, in order
WithoutCrOfCrlf(s) ==
    LET keep == (1..Len(s)) \ CrlfStarts(s)
        nth(k) == CHOOSE i \in keep : Cardinality({j \in keep : j <= i}) = k
    IN  [k \in 1..Cardinality(keep) |-> s[nth(k)]]

Converted(c) == [pad |-> c.pad, tail |-> WithoutCrOfCrlf(c.tail)]

\* a NUL among the first 1024 bytes
NulInFirstKiB(c) == \E j \in 1..Len(c.tail) : c.pad + j <= 1024 /\ c.tail[j] = 0

\* a NUL somewhere, but none among the first 1024 bytes
NulOnlyLater(c) ==
    /\ ~NulInFirstKiB(c)
    /\ \E j \in 1..Len(c.tail) : c.tail[j] = 0

Decodable(c) == \A j \in 1..Len(c.tail) : c.tail[j] # 255

\* the pipeline run on entry e has returned
Returned(e) == pc[e] \in {"result", "done"}

\* entries whose path opens a file
FileEntries == {e \in Entries : path[e] # 0}

\* no other walked entry opens the file of e
Alone(e) == \A d \in FileEntries : d # e => path[d] # path[e]

\* the outcome of the pipeline on content c when no I/O call fails
Outcome(c) ==
    IF NulInFirstKiB(c) THEN "Skipped"
    ELSE IF ~Decodable(c) THEN "Errored"
    ELSE IF NumCRLF(c.tail) > 0 THEN "Converted"
    ELSE "Skipped"

----------------------------------------------------------------------------
(* C1 *)

\* C1: whenever process_file has written a file back (single-file mode), the
\* written content holds no CRLF, is the original with the CR of every CRLF
\* removed and nothing else changed, and is shorter by the number of CRLFs.
C1_ConvertedHasNoCrlf ==
    (root_path = "file" /\ Returned(1) /\ res[1] = "Converted") =>
        /\ NumCRLF(fs0[1].tail) > 0
        /\ fs[1] = Converted(fs0[1])
        /\ ContentLen(fs[1]) = ContentLen(fs0[1]) - NumCRLF(fs0[1].tail)
        /\ NumCRLF(fs[1].tail) = 0

\* a CR stands right before a CRLF (CR CR LF)
HasCrBeforeCrlf(s) == \E i \in CrlfStarts(s) : i > 1 /\ s[i - 1] = 13

\* C1 amended: the written content is the original with the CR of every CRLF
\* removed and nothing else changed, shorter by the number of CRLFs; it holds
\* no CRLF exactly when no CR stood right before a CRLF in the original.
C1_ConvertedEveryCrlf ==
    (root_path = "file" /\ Returned(1) /\ res[1] = "Converted") =>
        /\ NumCRLF(fs0[1].tail) > 0
        /\ fs[1] = Converted(fs0[1])
        /\ ContentLen(fs[1]) = ContentLen(fs0[1]) - NumCRLF(fs0[1].tail)
        /\ (NumCRLF(fs[1].tail) = 0) <=> ~HasCrBeforeCrlf(fs0[1].tail)

\* a text with a CRLF, a lone CR and filler before them has been converted
C1_Witness ==
    /\ root_path = "file" /\ pc[1] = "done" /\ res[1] = "Converted"
    /\ fs0[1] = [pad |-> 1022, tail |-> <<13, 10, 13>>]
    /\ fs[1] = [pad |-> 1022, tail |-> <<10, 13>>]

(* C2 *)

\* C2: when a first single-file run returned Converted, a second run right
\* after it in which no I/O call fails returns Skipped, writes nothing and
\* leaves the content of the first run.
C2_SecondRunSkips ==
    (root_path = "file" /\ Len(history) >= 2 /\ history[1].res = "Converted"
        /\ history[2].fail = "none") =>
        /\ history[2].res = "Skipped"
        /\ ~history[2].wrote
        /\ history[2].fs = history[1].fs

\* C2 amended: when a first single-file run returned Converted on a content
\* in which no CR stands right before a CRLF, a second run right after it in
\* which no I/O call fails returns Skipped, writes nothing and leaves the
\* content of the first run.
C2_SecondRunSkipsUnlessCrCrLf ==
    (root_path = "file" /\ Len(history) >= 2 /\ history[1].res = "Converted"
        /\ history[2].fail = "none" /\ ~HasCrBeforeCrlf(history[1].before.tail)) =>
        /\ history[2].res = "Skipped"
        /\ ~history[2].wrote
        /\ history[2].fs = history[1].fs

\* two runs in a row: converted, then skipped
C2_Witness ==
    /\ root_path = "file" /\ Len(history) = 2 /\ pcMain = "exit"
    /\ history[1].res = "Converted" /\ history[1].before.tail = <<13, 10, 13>>
    /\ history[2].res = "Skipped" /\ history[2].fail = "none"
    /\ history[2].before = history[1].fs

(* C3 *)

\* C3 as claimed: a file whose pipeline returned an error (whatever call
\* failed, the write-back included) has the content it had before the call.
C3_ErroredUntouched ==
    \A e \in FileEntries :
        (Returned(e) /\ res[e] = "Errored" /\ Alone(e)) =>
            fs[path[e]] = fs0[path[e]]

\* C3 amended: a file whose pipeline returned an error from the classifier,
\* from the full read or the decoding, or from opening the file for the
\* write-back has the content it had before the call.
C3_ErroredBeforeWriteAllUntouched ==
    \A e \in FileEntries :
        (Returned(e) /\ res[e] = "Errored" /\ Alone(e) /\ ioFail[e] # "write") =>
            fs[path[e]] = fs0[path[e]]

\* the write-back was reached and failed to open the file
C3_Witness ==
    /\ root_path = "file" /\ pc[1] = "done"
    /\ res[1] = "Errored" /\ ioFail[1] = "create"
    /\ NumCRLF(fs0[1].tail) > 0

(* C5 *)

\* C5: a file with a NUL among its first 1024 bytes is never read in full,
\* never written, and skipped when the classifier's I/O succeeds, CRLF or not;
\* the classifier answers "text" exactly when those bytes hold no NUL; and a
\* file whose only NULs lie after byte 1024 is converted like any text.
C5_NulInHeadSkipped ==
    \A e \in FileEntries :
        LET c == fs0[path[e]]
        IN  /\ NulInFirstKiB(c) =>
                  /\ ~fullRead[e] /\ ~wrote[e] /\ fs[path[e]] = c
                  /\ (Returned(e) /\ ioFail[e] = "none") => res[e] = "Skipped"
            /\ (isText[e] # "unset" /\ Alone(e)) =>
                  (isText[e] = "text" <=> ~NulInFirstKiB(c))
            /\ (Alone(e) /\ Returned(e) /\ ioFail[e] = "none" /\ NulOnlyLater(c)) =>
                  res[e] = Outcome(c)

\* a file with CRLF and a NUL in its head has been skipped
C5_Witness ==
    /\ root_path = "file" /\ pc[1] = "done"
    /\ NulInFirstKiB(fs0[1]) /\ NumCRLF(fs0[1].tail) > 0
    /\ fs0[1].pad > 0
    /\ res[1] = "Skipped"

(* C6 *)

\* C6: a decodable file without any CRLF is never written, and when no I/O
\* call fails the pipeline returns Skipped.
C6_NoCrlfUnchanged ==
    \A e \in FileEntries :
        LET c == fs0[path[e]]
        IN  (Decodable(c) /\ NumCRLF(c.tail) = 0) =>
                /\ ~wrote[e]
                /\ fs[path[e]] = c
                /\ (Returned(e) /\ ioFail[e] = "none") => res[e] = "Skipped"

\* a text with a lone CR and a lone LF has been read in full and skipped
C6_Witness ==
    /\ root_path = "file" /\ pc[1] = "done"
    /\ fs0[1].tail = <<10, 13>>
    /\ fullRead[1] /\ res[1] = "Skipped"

(* C7 *)

LinesOut == stdout.processed + stdout.summary
LinesErr == stderr.skipped + stderr.fileerr + stderr.traverse

\* C7: a single-file run that has ended ran the pipeline once and printed one
\* line: on standard output when the file was converted or skipped, and on
\* standard error only when the pipeline returned an error.
C7_SingleFileReport ==
    (root_path = "file" /\ pcMain = "exit") =>
        /\ pc[1] = "done" /\ \A e \in Entries \ {1} : pc[e] = "queued"
        /\ LinesOut + LinesErr = 1
        /\ res[1] \in {"Converted", "Skipped"} => LinesOut = 1
        /\ LinesErr > 0 => res[1] = "Errored"

----------------------------------------------------------------------------
(* Directory mode *)

RegularFiles == {e \in Entries : entry[e] = "file"}

\* entries whose closure has finished with outcome o
Finishers(o) == {e \in Entries : pc[e] = "done" /\ res[e] = o}

\* traversal errors whose closure has finished
TraverseErrors == {e \in Entries : pc[e] = "done" /\ entry[e] = "err"}

\* the pipeline run on e failed in one of its own I/O calls
Failed(e) == ioFail[e] # "none"

\* the pipeline run on e has read or written the file
Touched(e) == isText[e] # "unset" \/ fullRead[e] \/ wrote[e]

(* C4 *)

\* C4: with no traversal error, the summary of a directory run reports as
\* converted the regular files with CRLF-bearing text, as skipped the regular
\* files that are binary or CRLF-free text, as errored the regular files that
\* cannot be read or decoded, and the three add up to the number of regular
\* files: nothing that is not a regular file is counted.
C4_TalliesAreRegularFiles ==
    (root_path = "dir" /\ pcMain = "exit" /\ \A e \in Entries : entry[e] # "err") =>
        LET C == {e \in RegularFiles : ~Failed(e) /\ Outcome(fs0[e]) = "Converted"}
            S == {e \in RegularFiles : ~Failed(e) /\ Outcome(fs0[e]) = "Skipped"}
            E == {e \in RegularFiles : Failed(e) \/ Outcome(fs0[e]) = "Errored"}
        IN  /\ summary = <<Cardinality(C), Cardinality(S), Cardinality(E)>>
            /\ summary[1] + summary[2] + summary[3] = Cardinality(RegularFiles)

(* C9 *)

\* C9: in directory mode, at every moment and under every interleaving, each
\* counter equals the number of finished closures with that outcome (for the
\* error counter: plus the finished traversal errors), and the summary prints
\* exactly these numbers once every closure has finished.
C9_NoLostIncrement ==
    root_path = "dir" =>
        /\ processed_count = Cardinality(Finishers("Converted"))
        /\ skipped_count = Cardinality(Finishers("Skipped"))
        /\ error_count = Cardinality(Finishers("Errored")) + Cardinality(TraverseErrors)
        /\ pcMain = "exit" =>
              /\ \A e \in Entries : pc[e] = "done"
              /\ summary = <<processed_count, skipped_count, error_count>>

\* a traversal error and a failed file have both been counted as errors
C9_Witness ==
    /\ root_path = "dir" /\ pcMain = "exit"
    /\ \E e, d \in Entries : entry[e] = "err" /\ res[d] = "Errored"
    /\ summary = <<0, 0, 2>>

(* C10 *)

\* C10: after a directory run without I/O failure, every file holds its
\* original content or its complete conversion, and no file has been read or
\* written by more than one pipeline run, symbolic links to files included.
C10_NoInterference ==
    (root_path = "dir" /\ pcMain = "exit" /\ \A e \in Entries : ~Failed(e)) =>
        /\ \A f \in RegularFiles : fs[f] \in {fs0[f], Converted(fs0[f])}
        /\ \A f \in RegularFiles :
              Cardinality({e \in FileEntries : path[e] = f /\ Touched(e)}) <= 1

(* C8 *)

\* the outcomes the pipeline on e can have in a run where no I/O call fails
FailureFreeOutcomes(e) ==
    LET o == Outcome(fs0[path[e]])
    IN  IF ~Alone(e) /\ o = "Converted" THEN {"Converted", "Skipped"} ELSE {o}

\* the run has ended only after for_each returned and the summary was printed
\* from the final counters, and the files that did not fail themselves got a
\* failure-free outcome
C8_Safety ==
    (root_path = "dir" /\ pcMain = "exit") =>
        /\ \A e \in Entries : pc[e] = "done"
        /\ summary = << Cardinality(Finishers("Converted")),
                        Cardinality(Finishers("Skipped")),
                        Cardinality(Finishers("Errored")) + Cardinality(TraverseErrors) >>
        /\ \A e \in FileEntries : res[e] # "none"
        /\ \A e \in FileEntries : ~Failed(e) => res[e] \in FailureFreeOutcomes(e)

\* C8: a directory run always terminates, whatever entries and files fail;
\* when it has, every walked file has been processed, the ones that did not
\* fail with an outcome they can have without any failure, and the summary was
\* printed after every closure had counted its outcome.
C8_NoErrorFatal ==
    /\ []C8_Safety
    /\ (root_path = "dir" /\ pcMain = "start") ~> (pcMain = "exit")

\* a traversal error and a failed file, next to a file that was converted
C8_Witness ==
    /\ root_path = "dir" /\ pcMain = "exit"
    /\ \E e, d \in Entries :
          /\ entry[e] = "err" \/ Failed(e)
          /\ d # e /\ ~Failed(d) /\ res[d] = "Converted"

====
